---- MODULE Spec2Model ----
(***************************************************************************)
(* Model of crates/lang/ir/src/ir/event_def.rs: the validation of an ink!  *)
(* event definition (an enum with variants and fields carrying #[ink(..)]  *)
(* attributes) and the accessors of the checked definition.                *)
(*                                                                         *)
(* An attribute is a record [ink, args]: an #[ink(a, b)] attribute has     *)
(* ink = TRUE and args = <<a, b>>; any other attribute (#[doc], #[derive]) *)
(* has ink = FALSE.  A field is [attrs], a variant is [fields], the enum   *)
(* is [attrs, vis, generics, variants].                                    *)
(***************************************************************************)
EXTENDS Integers, Sequences, FiniteSets, TLC

VARIABLES input, pc, entry, result, call

vars == <<input, pc, entry, result, call>>

-----------------------------------------------------------------------------
(* Bounds of the enumerated inputs. *)

\* number of generic parameters plus #[ink] arguments and other attributes
\* on the enum itself
MaxDeclSize == 3
\* variants + fields + attribute arguments of an enum body with arbitrary
\* field attributes
MaxBodySize == 6
\* variants + fields + attribute arguments of an enum body whose fields
\* carry at most #[ink(topic)]
MaxTopicsSize == 9

-----------------------------------------------------------------------------
(* Values. *)

DeclKinds == {"Event", "Anonymous", "Storage"}
FieldKinds == {"Topic", "Payable"}
Kinds == DeclKinds \cup FieldKinds

Foreign == [ink |-> FALSE, args |-> << >>]
InkAttr(args) == [ink |-> TRUE, args |-> args]

Ok(v) == [ok |-> TRUE, val |-> v]
Err(e) == [ok |-> FALSE, err |-> e]

DuplicateAnnotation == "encountered duplicate ink! attribute"
EmptyExpandedAttributes == "encountered unexpected empty expanded ink! attribute arguments"
UnexpectedFirstAttributeArgument == "unexpected first ink! attribute argument"
ConflictingAnnotationArgument == "encountered conflicting ink! attribute argument"
InvalidFirstFieldAttribute == "first optional ink! attribute of an event field must be #[ink(topic)]"
ConflictingFieldAttribute == "encountered conflicting ink! attribute for event field"
GenericNotSupported == "generic ink! event structs are not supported"
\* the message of the source quotes pub in backquotes
NonPublicNotSupported == "non pub ink! event structs are not supported"
ParseError == "parse error"

NoCall == [fn |-> "none"]

-----------------------------------------------------------------------------
(* The attribute utilities of ir::attrs used by event_def.rs. *)

HasDup(s) == \E i, j \in DOMAIN s : i < j /\ s[i] = s[j]

RECURSIVE Flatten(_)
Flatten(as) == IF as = << >> THEN << >> ELSE Head(as).args \o Flatten(Tail(as))

IsInk(a) == a.ink
IsOther(a) == ~a.ink

\* Attribute::try_from on one attribute: an #[ink(..)] attribute repeating an
\* argument does not parse.
ParsesOk(a) == a.ink => ~HasDup(a.args)

\* ir::partition_attributes: parse every attribute, split ink! from other
\* attributes (order kept), reject a repeated ink! attribute.
partition_attributes(as) ==
    IF \E i \in DOMAIN as : ~ParsesOk(as[i]) THEN Err(DuplicateAnnotation)
    ELSE LET ink == SelectSeq(as, IsInk)
         IN  IF HasDup(ink) THEN Err(DuplicateAnnotation)
             ELSE Ok([ink |-> ink, others |-> SelectSeq(as, IsOther)])

\* ir::InkAttribute::from_expanded: flatten the arguments of the ink!
\* attributes into one normalized attribute.
from_expanded(ink) ==
    LET args == Flatten(ink)
    IN  IF args = << >> THEN Err(EmptyExpandedAttributes)
        ELSE IF HasDup(args) THEN Err(DuplicateAnnotation)
        ELSE Ok(args)

\* InkAttribute::is_anonymous
is_anonymous(args) == \E i \in DOMAIN args : args[i] = "Anonymous"

\* ir::sanitize_attributes: partition, normalize, check the first argument,
\* then check every argument against the predicate of the caller (a function
\* from argument kinds to Ok or Err).
sanitize_attributes(as, is_valid_first, is_conflicting_attr) ==
    LET p == partition_attributes(as)
    IN  IF ~p.ok THEN p
        ELSE LET n == from_expanded(p.val.ink)
             IN  IF ~n.ok THEN n
                 ELSE IF n.val[1] # is_valid_first
                      THEN Err(UnexpectedFirstAttributeArgument)
                 ELSE IF \E i \in DOMAIN n.val : ~is_conflicting_attr[n.val[i]].ok
                      THEN Err(ConflictingAnnotationArgument)
                 ELSE Ok([ink |-> n.val, others |-> p.val.others])

\* ir::first_ink_attribute: the first #[ink(..)] attribute, parsed.
first_ink_attribute(as) ==
    LET ink == SelectSeq(as, IsInk)
    IN  IF ink = << >> THEN Ok([some |-> FALSE])
        ELSE IF ~ParsesOk(ink[1]) THEN Err(DuplicateAnnotation)
        ELSE Ok([some |-> TRUE, attr |-> ink[1]])

-----------------------------------------------------------------------------
(* InkEventDefinition. *)

EventDef(item, anonymous) == [item |-> item, anonymous |-> anonymous]

\* faulty variant: the closure rejects nothing
EnumArgAcceptedAny(kind) == Ok("accepted")

\* the closure passed to sanitize_attributes by try_from
EnumArgAccepted(kind) ==
    IF kind \in {"Event", "Anonymous"} THEN Ok("accepted") ELSE Err("None")

\* faulty variant: the loop over normalized.args() is missing
CheckField_first_only(field) ==
    LET p == partition_attributes(field.attrs)
    IN  IF ~p.ok THEN p
        ELSE IF p.val.ink = << >> THEN Ok("continue")
        ELSE LET n == from_expanded(p.val.ink)
             IN  IF ~n.ok THEN n
                 ELSE IF n.val[1] # "Topic" THEN Err(InvalidFirstFieldAttribute)
                 ELSE Ok("continue")

\* the body of the loop over the fields in InkEventDefinition::new
CheckField(field) ==
    LET p == partition_attributes(field.attrs)
    IN  IF ~p.ok THEN p
        ELSE IF p.val.ink = << >> THEN Ok("continue")
        ELSE LET n == from_expanded(p.val.ink)
             IN  IF ~n.ok THEN n
                 ELSE IF n.val[1] # "Topic" THEN Err(InvalidFirstFieldAttribute)
                 ELSE IF \E i \in DOMAIN n.val : n.val[i] # "Topic"
                      THEN Err(ConflictingFieldAttribute)
                 ELSE Ok("continue")

RECURSIVE AllFields(_)
AllFields(variants) ==
    IF variants = << >> THEN << >>
    ELSE Head(variants).fields \o AllFields(Tail(variants))

RECURSIVE CheckFields(_)
CheckFields(fs) ==
    IF fs = << >> THEN Ok("done")
    ELSE LET c == CheckField(Head(fs))
         IN  IF ~c.ok THEN c ELSE CheckFields(Tail(fs))

\* InkEventDefinition::new
new(item, anonymous) ==
    LET c == CheckFields(AllFields(item.variants))
    IN  IF ~c.ok THEN c ELSE Ok(EventDef(item, anonymous))

\* faulty variant: the anonymous flag is not taken from the attributes
try_from_not_anonymous(item_enum) ==
    LET s == sanitize_attributes(item_enum.attrs, "Event",
                                 [k \in Kinds |-> EnumArgAccepted(k)])
    IN  IF ~s.ok THEN s
        ELSE new([item_enum EXCEPT !.attrs = s.val.others], FALSE)

\* faulty variant: the wrong kind is required first
try_from_expecting_storage(item_enum) ==
    LET s == sanitize_attributes(item_enum.attrs, "Storage",
                                 [k \in Kinds |-> EnumArgAccepted(k)])
    IN  IF ~s.ok THEN s
        ELSE new([item_enum EXCEPT !.attrs = s.val.others],
                 is_anonymous(s.val.ink))

\* <InkEventDefinition as TryFrom<syn::ItemEnum>>::try_from
try_from(item_enum) ==
    LET s == sanitize_attributes(item_enum.attrs, "Event",
                                 [k \in Kinds |-> EnumArgAccepted(k)])
    IN  IF ~s.ok THEN s
        ELSE new([item_enum EXCEPT !.attrs = s.val.others],
                 is_anonymous(s.val.ink))

\* InkEventDefinition::from_event_def_tokens
from_event_def_tokens(config_parses, item) ==
    IF ~config_parses THEN Err(ParseError)
    ELSE Ok(EventDef(item, FALSE))

\* faulty variant: only the first attribute of the field is looked at
EventVariant_fields_first_attr(variant) ==
    [i \in DOMAIN variant.fields |->
        [is_topic |-> /\ variant.fields[i].attrs # << >>
                      /\ variant.fields[i].attrs[1].ink
                      /\ variant.fields[i].attrs[1].args[1] = "Topic",
         field |-> variant.fields[i]]]

\* EventVariant::fields
EventVariant_fields(variant) ==
    [i \in DOMAIN variant.fields |->
        LET f == first_ink_attribute(variant.fields[i].attrs)
        IN  [is_topic |-> IF f.ok /\ f.val.some
                          THEN f.val.attr.args[1] = "Topic" ELSE FALSE,
             field |-> variant.fields[i]]]

\* InkEventDefinition::variants
variants(def) ==
    [i \in DOMAIN def.item.variants |->
        [index |-> i - 1, item |-> def.item.variants[i]]]

TopicCount(v) ==
    Cardinality({i \in DOMAIN EventVariant_fields(v.item) :
                    EventVariant_fields(v.item)[i].is_topic})

RECURSIVE SumOf(_)
SumOf(s) == IF s = << >> THEN 0 ELSE Head(s) + SumOf(Tail(s))

RECURSIVE MaxOf(_)
MaxOf(s) ==
    IF s = << >> THEN 0
    ELSE LET m == MaxOf(Tail(s)) IN IF Head(s) >= m THEN Head(s) ELSE m

\* faulty variant: the topics of all variants are added up
max_len_topics_sum(def) ==
    SumOf([i \in DOMAIN variants(def) |-> TopicCount(variants(def)[i])])

\* InkEventDefinition::max_len_topics
max_len_topics(def) ==
    MaxOf([i \in DOMAIN variants(def) |-> TopicCount(variants(def)[i])])

\* EventField::attrs: the other attributes, or a panic
EventField_attrs(view) ==
    LET p == partition_attributes(view.field.attrs)
    IN  IF ~p.ok THEN [panic |-> TRUE]
        ELSE [panic |-> FALSE, val |-> p.val.others]

-----------------------------------------------------------------------------
(* The enumerated inputs: every syn::ItemEnum up to a size. *)

\* the attributes of weight w: #[ink(..)] with w arguments, or another
\* attribute (weight 1)
AttrsOfWeight(K, w) ==
    {InkAttr(a) : a \in [1..w -> K]} \cup (IF w = 1 THEN {Foreign} ELSE {})

RECURSIVE AttrLists(_, _)
AttrLists(K, w) ==
    IF w = 0 THEN {<< >>}
    ELSE UNION {{<<a>> \o r : a \in AttrsOfWeight(K, i), r \in AttrLists(K, w - i)} :
                    i \in 1..w}

Topic == InkAttr(<<"Topic">>)
Payable == InkAttr(<<"Payable">>)

\* the attribute lists of weight w a generated field carries: any list over
\* FieldKinds, or (plain) nothing and #[ink(topic)] alone
FieldAttrLists(plain, w) ==
    IF ~plain THEN AttrLists(FieldKinds, w)
    ELSE IF w = 0 THEN {<< >>}
    ELSE IF w = 1 THEN {<<Topic>>}
    ELSE {}

\* the fields of size s: one for the field, the rest for its attributes
FieldsOfSize(plain, s) == {[attrs |-> as] : as \in FieldAttrLists(plain, s - 1)}

RECURSIVE FieldLists(_, _)
FieldLists(plain, s) ==
    IF s = 0 THEN {<< >>}
    ELSE UNION {{<<f>> \o r : f \in FieldsOfSize(plain, i),
                              r \in FieldLists(plain, s - i)} : i \in 1..s}

VariantsOfSize(plain, s) == {[fields |-> fs] : fs \in FieldLists(plain, s - 1)}

RECURSIVE VariantLists(_, _)
VariantLists(plain, s) ==
    IF s = 0 THEN {<< >>}
    ELSE UNION {{<<v>> \o r : v \in VariantsOfSize(plain, i),
                              r \in VariantLists(plain, s - i)} : i \in 1..s}

Bodies(plain, n) == UNION {VariantLists(plain, s) : s \in 0..n}

Item(as, vis, generics, vs) ==
    [attrs |-> as, vis |-> vis, generics |-> generics, variants |-> vs]

F(as) == [attrs |-> as]
V(fs) == [fields |-> fs]

\* the enum body of the unit tests, and two bodies with an illegal field
TestBody == <<V(<<F(<<Topic>>), F(<< >>)>>)>>
SampleBodies ==
    {TestBody, << >>, <<V(<<F(<<Payable>>)>>)>>, <<V(<<F(<<Topic, Topic>>)>>)>>}

\* any attributes and shape of the enum itself, over the sample bodies
DeclInputs ==
    UNION {{Item(as, vis, g, b) :
                as \in AttrLists(DeclKinds, w),
                vis \in {"pub", "inherited"},
                b \in SampleBodies} :
           <<g, w>> \in {x \in (0..MaxDeclSize) \X (0..MaxDeclSize) :
                            x[1] + x[2] <= MaxDeclSize}}

EventOnly == <<InkAttr(<<"Event">>)>>

\* any body with any field attributes, under #[ink(event)] pub enum
BodyInputs ==
    {Item(EventOnly, "pub", 0, b) : b \in Bodies(FALSE, MaxBodySize)}

\* larger bodies whose fields carry #[ink(topic)] or nothing
TopicInputs ==
    {Item(EventOnly, "pub", 0, b) : b \in Bodies(TRUE, MaxTopicsSize)}

-----------------------------------------------------------------------------
(* The calls a client makes: one entry point, then accessors. *)

Init ==
    /\ input \in DeclInputs \cup BodyInputs
    /\ pc = "start"
    /\ entry = "none"
    /\ result = Err("none")
    /\ call = NoCall

InitTopics ==
    /\ input \in TopicInputs
    /\ pc = "start"
    /\ entry = "none"
    /\ result = Err("none")
    /\ call = NoCall

TryFrom ==
    /\ pc = "start"
    /\ result' = try_from(input)
    /\ entry' = "try_from"
    /\ pc' = "done"
    /\ UNCHANGED <<input, call>>

New ==
    /\ pc = "start"
    /\ \E anonymous \in BOOLEAN : result' = new(input, anonymous)
    /\ entry' = "new"
    /\ pc' = "done"
    /\ UNCHANGED <<input, call>>

FromEventDefTokens ==
    /\ pc = "start"
    /\ \E config_parses \in BOOLEAN :
            result' = from_event_def_tokens(config_parses, input)
    /\ entry' = "from_event_def_tokens"
    /\ pc' = "done"
    /\ UNCHANGED <<input, call>>

CallMaxLenTopics ==
    /\ pc = "done" /\ result.ok
    /\ call' = [fn |-> "max_len_topics", ret |-> max_len_topics(result.val)]
    /\ UNCHANGED <<input, pc, entry, result>>

CallFields ==
    /\ pc = "done" /\ result.ok
    /\ \E v \in DOMAIN variants(result.val) :
            call' = [fn |-> "fields", variant |-> v,
                     ret |-> EventVariant_fields(variants(result.val)[v].item)]
    /\ UNCHANGED <<input, pc, entry, result>>

CallFieldAttrs ==
    /\ pc = "done" /\ result.ok
    /\ \E v \in DOMAIN variants(result.val) :
         \E f \in DOMAIN EventVariant_fields(variants(result.val)[v].item) :
            LET r == EventField_attrs(
                        EventVariant_fields(variants(result.val)[v].item)[f])
            IN  /\ call' = [fn |-> "attrs", variant |-> v, field |-> f, ret |-> r]
                /\ pc' = IF r.panic THEN "panicked" ELSE pc
    /\ UNCHANGED <<input, entry, result>>

Next ==
    \/ TryFrom
    \/ New
    \/ FromEventDefTokens
    \/ CallMaxLenTopics
    \/ CallFields
    \/ CallFieldAttrs

Spec == Init /\ [][Next]_vars
SpecTopics == InitTopics /\ [][Next]_vars

-----------------------------------------------------------------------------
(* Properties. *)

\* the #[ink(..)] arguments attached to a node, in source order
InkArgs(as) == Flatten(SelectSeq(as, IsInk))

HasArg(as, kind) == \E i \in DOMAIN InkArgs(as) : InkArgs(as)[i] = kind

Validating == entry \in {"try_from", "new"}

\* a field with no #[ink(..)] argument, or with topic alone
LegalField(f) == InkArgs(f.attrs) \in {<< >>, <<"Topic">>}

LegalFields(item) ==
    \A k \in DOMAIN AllFields(item.variants) : LegalField(AllFields(item.variants)[k])

\* pub, no generics, Event first and optionally Anonymous after it
ValidDeclLevel(item) ==
    /\ item.vis = "pub"
    /\ item.generics = 0
    /\ InkArgs(item.attrs) \in {<<"Event">>, <<"Event", "Anonymous">>}

ValidEnum(item) == ValidDeclLevel(item) /\ LegalFields(item)

\* the same enum with its #[ink(..)] arguments in one attribute
Combined(item) ==
    [item EXCEPT !.attrs = <<InkAttr(InkArgs(@))>> \o SelectSeq(@, IsOther)]

\* the same enum with one attribute per #[ink(..)] argument
Separate(item) ==
    [item EXCEPT !.attrs =
        [i \in DOMAIN InkArgs(@) |-> InkAttr(<<InkArgs(@)[i]>>)]
            \o SelectSeq(@, IsOther)]

\* C1: try_from accepts every valid enum, the anonymous flag of the result
\* tells whether Anonymous is among the arguments, and the result does not
\* depend on how the arguments are spread over attributes.
C1_ValidEnumAccepted ==
    (entry = "try_from" /\ ValidEnum(input)) =>
        /\ result.ok
        /\ result.val.anonymous = HasArg(input.attrs, "Anonymous")
        /\ try_from(Combined(input)) = result
        /\ try_from(Separate(input)) = result

C1_Witness ==
    /\ entry = "try_from" /\ ValidEnum(input)
    /\ Len(SelectSeq(input.attrs, IsInk)) = 2
    /\ Combined(input) # input
    /\ \E k \in DOMAIN AllFields(input.variants) :
            AllFields(input.variants)[k].attrs = <<Topic>>
    /\ result.ok /\ result.val.anonymous

\* C2 as stated: whenever the first argument of the enum is not Event,
\* try_from fails with UnexpectedFirstAttributeArgument.
C2_Original ==
    (/\ entry = "try_from"
     /\ InkArgs(input.attrs) # << >>
     /\ InkArgs(input.attrs)[1] # "Event")
        => result = Err(UnexpectedFirstAttributeArgument)

\* C2 amended: whenever the first argument of the enum is not Event and no
\* argument is repeated, try_from fails with
\* UnexpectedFirstAttributeArgument, whatever follows and whatever the
\* fields carry.
C2_WrongFirstRejected ==
    (/\ entry = "try_from"
     /\ InkArgs(input.attrs) # << >>
     /\ InkArgs(input.attrs)[1] # "Event"
     /\ ~HasDup(InkArgs(input.attrs)))
        => result = Err(UnexpectedFirstAttributeArgument)

C2_Witness ==
    /\ entry = "try_from"
    /\ InkArgs(input.attrs) = <<"Storage", "Event">>
    /\ ~LegalFields(input)
    /\ result = Err(UnexpectedFirstAttributeArgument)

\* C3 as stated: whenever Event is first and another argument is neither
\* Event nor Anonymous, try_from fails with ConflictingAnnotationArgument.
C3_Original ==
    (/\ entry = "try_from"
     /\ InkArgs(input.attrs) # << >>
     /\ InkArgs(input.attrs)[1] = "Event"
     /\ \E i \in DOMAIN InkArgs(input.attrs) :
            InkArgs(input.attrs)[i] \notin {"Event", "Anonymous"})
        => result = Err(ConflictingAnnotationArgument)

\* C3 amended: when Event is first and no argument is repeated, try_from
\* fails with ConflictingAnnotationArgument if and only if some argument is
\* neither Event nor Anonymous.
C3_ConflictRejected ==
    (/\ entry = "try_from"
     /\ InkArgs(input.attrs) # << >>
     /\ InkArgs(input.attrs)[1] = "Event"
     /\ ~HasDup(InkArgs(input.attrs)))
        => ((result = Err(ConflictingAnnotationArgument))
                <=> \E i \in DOMAIN InkArgs(input.attrs) :
                        InkArgs(input.attrs)[i] \notin {"Event", "Anonymous"})

C3_Witness ==
    /\ entry = "try_from"
    /\ InkArgs(input.attrs) = <<"Event", "Anonymous", "Storage">>
    /\ result = Err(ConflictingAnnotationArgument)

\* C4: an enum with generic parameters that is valid otherwise is rejected
\* by try_from with GenericNotSupported.
C4_GenericRejected ==
    (/\ entry = "try_from"
     /\ input.generics > 0
     /\ ValidEnum([input EXCEPT !.generics = 0]))
        => result = Err(GenericNotSupported)

\* C5: an enum that is not pub and is valid otherwise is rejected by
\* try_from with NonPublicNotSupported.
C5_NonPublicRejected ==
    (/\ entry = "try_from"
     /\ input.vis # "pub"
     /\ ValidEnum([input EXCEPT !.vis = "pub"]))
        => result = Err(NonPublicNotSupported)

FieldArgs(k) == InkArgs(AllFields(input.variants)[k].attrs)

\* the enum is valid but for its k-th field (in scan order)
OtherwiseValid(k) ==
    /\ Validating
    /\ entry = "try_from" => ValidDeclLevel(input)
    /\ \A j \in DOMAIN AllFields(input.variants) :
            j # k => LegalField(AllFields(input.variants)[j])

\* C6 as stated: a field whose first argument is not Topic fails with
\* InvalidFirstFieldAttribute, Topic followed only by Topic fails with
\* DuplicateAnnotation, Topic followed by another kind fails with
\* ConflictingFieldAttribute.
C6_Original ==
    \A k \in DOMAIN AllFields(input.variants) :
        (OtherwiseValid(k) /\ FieldArgs(k) # << >>) =>
            /\ FieldArgs(k)[1] # "Topic"
                    => result = Err(InvalidFirstFieldAttribute)
            /\ (/\ Len(FieldArgs(k)) > 1
                /\ \A i \in DOMAIN FieldArgs(k) : FieldArgs(k)[i] = "Topic")
                    => result = Err(DuplicateAnnotation)
            /\ (/\ FieldArgs(k)[1] = "Topic"
                /\ \E i \in DOMAIN FieldArgs(k) : FieldArgs(k)[i] # "Topic")
                    => result = Err(ConflictingFieldAttribute)

\* C6 amended: a field repeating an argument fails with DuplicateAnnotation;
\* without a repeated argument, a first argument other than Topic fails
\* with InvalidFirstFieldAttribute and Topic followed by another kind fails
\* with ConflictingFieldAttribute.
C6_FieldRules ==
    \A k \in DOMAIN AllFields(input.variants) :
        (OtherwiseValid(k) /\ FieldArgs(k) # << >>) =>
            /\ HasDup(FieldArgs(k)) => result = Err(DuplicateAnnotation)
            /\ (~HasDup(FieldArgs(k)) /\ FieldArgs(k)[1] # "Topic")
                    => result = Err(InvalidFirstFieldAttribute)
            /\ (/\ ~HasDup(FieldArgs(k))
                /\ FieldArgs(k)[1] = "Topic"
                /\ \E i \in DOMAIN FieldArgs(k) : FieldArgs(k)[i] # "Topic")
                    => result = Err(ConflictingFieldAttribute)

C6_Witness ==
    /\ entry = "try_from"
    /\ Len(AllFields(input.variants)) = 2
    /\ OtherwiseValid(2)
    /\ AllFields(input.variants)[1].attrs = <<Topic>>
    /\ AllFields(input.variants)[2].attrs = <<Topic, Payable>>
    /\ result = Err(ConflictingFieldAttribute)

TopicMarked(v) ==
    Cardinality({i \in DOMAIN v.fields : HasArg(v.fields[i].attrs, "Topic")})

\* C8: max_len_topics is the largest number of topic fields of any one
\* variant, and 0 without variants or topic fields.
C8_MaxLenTopics ==
    (result.ok /\ call.fn = "max_len_topics") =>
        LET vs == result.val.item.variants
            counts == {TopicMarked(vs[i]) : i \in DOMAIN vs}
        IN  /\ counts = {} => call.ret = 0
            /\ counts # {} => /\ call.ret \in counts
                              /\ \A c \in counts : c <= call.ret

C8_Witness ==
    /\ result.ok /\ call.fn = "max_len_topics"
    /\ Len(result.val.item.variants) = 3
    /\ TopicMarked(result.val.item.variants[1]) = 1
    /\ TopicMarked(result.val.item.variants[2]) = 0
    /\ TopicMarked(result.val.item.variants[3]) = 2
    /\ call.ret = 2

\* C9: every definition an entry point returns has passed the checks, so
\* none holds a field with illegal #[ink(..)] arguments.
C9_OnlyValidatedInstances ==
    (pc # "start" /\ result.ok) => LegalFields(result.val.item)

\* C10: no sequence of constructor and accessor calls panics.
C10_NeverPanics == pc # "panicked"

====
